---------------------------- MODULE Spec2Model ----------------------------
(***************************************************************************)
(* pcap-broker: a capture subprocess writes a pcap stream into a pipe, the  *)
(* broker decodes it and fans every packet record out to all registered     *)
(* PCAP-over-IP client connections.                                         *)
(*                                                                          *)
(* src/cmd/pcap-broker/main.go holds two main programs:                     *)
(*   build = "cmd"   lines   1-238 (context based shutdown, checked header  *)
(*                   write)                                                 *)
(*   build = "root"  lines 240-413 (cmd.Wait goroutine, unchecked header    *)
(*                   write)                                                 *)
(* Both are modelled; the build is fixed in the initial state.              *)
(*                                                                          *)
(* Goroutines: main (pc), processPackets (dist), the listener closer        *)
(* (closer, build "cmd"), the cmd.Wait goroutine (build "root").            *)
(* Environment: the capture subprocess, connecting clients, write results   *)
(* of the sockets, the interrupt signal.                                    *)
(***************************************************************************)
EXTENDS Integers, Sequences, FiniteSets

\* ---------------------------------------------------------------- bounds
MaxConns == 2
MaxRecords == 2

\* snapshot length passed to WriteFileHeader
SnapLen == 65535

Conns == 1..MaxConns
\* captured lengths the records of the model carry: the length only feeds the
\* byte counters, one value other than 1 tells bytes from packets
Lens == {2}
\* link-layer types a capture header may declare (1: Ethernet)
LinkTypes == {1}
Builds == {"cmd", "root"}

VARIABLES
  build,      \* which main program runs
  pc,         \* position of the main goroutine
  exit,       \* broker process: "running" | "ok" | "fatal" | "signal" | "crash"
  cmd,        \* capture subprocess: "none" | "running" | "exit0" | "exit1" | "killed"
  capHdr,     \* global header on the pipe: "none" | "ok" | "bad"
  capLink,    \* link type declared by that header (0 while none)
  written,    \* number of packet records the subprocess has put on the pipe
  caplen,     \* ci.CaptureLength of the packet being distributed (0: none)
  consumed,   \* number of records processPackets has taken from Packets()
  handle,     \* handle.LinkType() (0 until pcap.OpenOfflineFile returned)
  ctx,        \* TRUE iff ctx.Err() != nil
  notify,     \* TRUE while signal.Notify holds os.Interrupt for ctx
  l,          \* listener: "unbound" | "open" | "closed"
  closer,     \* goroutine of lines 145-153: "off" | "wait" | "done"
  rStdout,    \* read end of the pipe: "open" | "closed"
  wStdout,    \* write end held by the broker: "open" | "closed"
  conn,       \* connection the accept loop is working on (0: none)
  sock,       \* per connection: "unused" | "backlog" | "open" | "closed" (by the broker)
  closes,     \* per connection: number of conn.Close() calls made
  wlog,       \* per connection: the writes attempted, in order
  connMap,    \* registry: registered connection -> PcapClient counters
  bytes,      \* per connection: payload bytes of the records written to it
  regAt,      \* per connection: passes completed when it was inserted (-1: never)
  dist,       \* processPackets: "off" | "recv" | "range" | "write" | "done"
  packet,     \* index of the record processPackets is distributing (0: none)
  todo,       \* connections the range loop has still to produce
  passStart,  \* registry keys when the current/last pass began
  passFailed, \* connections whose write failed in the current/last pass
  passes      \* number of records dealt with: fan-out passes completed, records dropped

vars == <<build, pc, exit, cmd, capHdr, capLink, written, caplen, consumed,
          handle, ctx, notify, l, closer, rStdout, wStdout, conn, sock, closes,
          wlog, bytes, connMap, regAt, dist, packet, todo, passStart,
          passFailed, passes>>

procVars == <<cmd, capHdr, capLink, written>>
sigVars  == <<ctx, notify>>
pipeVars == <<rStdout, wStdout>>
connVars == <<sock, closes, wlog, bytes, connMap, regAt>>
distVars == <<dist, packet, todo, passStart, passFailed, passes, consumed,
             caplen>>

\* ------------------------------------------------------------- data types
\* PcapClient{writer: writer}: the counters start at their zero value
PcapClient == [totalPackets |-> 0, totalBytes |-> 0]

\* what WriteFileHeader(65535, handle.LinkType()) puts on the wire
FileHeader(linkType) == [kind |-> "header", snaplen |-> SnapLen, link |-> linkType]

\* what WritePacket(ci, data) puts on the wire for record number i
PacketRecord(i) == [kind |-> "packet", id |-> i]

Running == exit = "running"

Init ==
  /\ build \in Builds
  /\ pc = "start"
  /\ exit = "running"
  /\ cmd = "none"
  /\ capHdr = "none"
  /\ capLink = 0
  /\ written = 0
  /\ caplen = 0
  /\ consumed = 0
  /\ handle = 0
  /\ ctx = FALSE
  /\ notify = FALSE
  /\ l = "unbound"
  /\ closer = "off"
  /\ rStdout = "open"
  /\ wStdout = "open"
  /\ conn = 0
  /\ sock = [c \in Conns |-> "unused"]
  /\ closes = [c \in Conns |-> 0]
  /\ wlog = [c \in Conns |-> << >>]
  /\ bytes = [c \in Conns |-> 0]
  /\ connMap = [c \in {} |-> PcapClient]
  /\ regAt = [c \in Conns |-> -1]
  /\ dist = "off"
  /\ packet = 0
  /\ todo = {}
  /\ passStart = {}
  /\ passFailed = {}
  /\ passes = 0

\* log.Fatal(): os.Exit(1), no deferred call and no cleanup runs
Fatal == exit' = "fatal"

\* a run-time panic in main: the deferred calls run (build "root" closes both
\* ends of the pipe, build "cmd" defers nothing), then the process ends with
\* status 2
Panic ==
  /\ exit' = "crash"
  /\ IF build = "root"
     THEN rStdout' = "closed" /\ wStdout' = "closed"
     ELSE UNCHANGED pipeVars

\* ------------------------------------------------------- main goroutine
\* shlex.Split, exec.Command(args[0], ...), cmd.Start() and the error checks:
\* a command that cannot be split or started is fatal, a command without a
\* word makes args[0] panic; build "root" also starts the goroutine that waits
\* for the subprocess
Start ==
  /\ Running /\ pc = "start"
  /\ \E how \in {"ok", "fail", "noargs"} :
       IF how = "ok"
       THEN /\ cmd' = "running"
            /\ pc' = IF build = "cmd" THEN "notify" ELSE "open"
            /\ exit' = exit
            /\ UNCHANGED pipeVars
       ELSE IF how = "fail"
       THEN /\ Fatal
            /\ UNCHANGED <<cmd, pc, pipeVars>>
       ELSE /\ Panic
            /\ UNCHANGED <<cmd, pc>>
  /\ UNCHANGED <<build, capHdr, capLink, written, handle, sigVars, l, closer,
                 conn, connVars, distVars>>

\* ctx, cancelFunc := signal.NotifyContext(context.Background(), os.Interrupt)
NotifyContext ==
  /\ Running /\ pc = "notify"
  /\ notify' = TRUE
  /\ pc' = "open"
  /\ UNCHANGED <<build, exit, procVars, handle, ctx, l, closer,
                 pipeVars, conn, connVars, distVars>>

\* pcap.OpenOfflineFile returns err == nil only for a recognised global header
HeaderAccepted(h) == h = "ok"

\* pcap.OpenOfflineFile(rStdout) blocks until the global header is on the pipe;
\* on success the packet source is built and processPackets is started
OpenOfflineFile ==
  /\ Running /\ pc = "open"
  /\ capHdr # "none"
  /\ IF HeaderAccepted(capHdr)
     THEN /\ handle' = capLink
          /\ dist' = "recv"
          /\ pc' = "listen"
          /\ exit' = exit
     ELSE /\ Fatal
          /\ UNCHANGED <<handle, dist, pc>>
  /\ UNCHANGED <<build, procVars, sigVars, l, closer, pipeVars, conn, connVars,
                 packet, todo, passStart, passFailed, passes,
                 consumed, caplen>>

\* net.Listen and its error check; build "cmd" then starts the goroutine that
\* closes the listener once ctx is done
Listen ==
  /\ Running /\ pc = "listen"
  /\ \E ok \in BOOLEAN :
       IF ok
       THEN /\ l' = "open"
            /\ closer' = IF build = "cmd" THEN "wait" ELSE "off"
            /\ pc' = "accept"
            /\ exit' = exit
       ELSE /\ Fatal
            /\ UNCHANGED <<l, closer, pc>>
  /\ UNCHANGED <<build, procVars, handle, sigVars, pipeVars, conn, connVars,
                 distVars>>

\* a mutated test that takes every accept error for fatal
AcceptOutcomeStrict(b, err, done) ==
  IF err THEN "fatal"
  ELSE IF b = "cmd" /\ done THEN "break"
  ELSE "serve"

\* the accept loop's test of (err, ctx.Err()): "fatal", "break" or "serve"
AcceptOutcome(b, err, done) ==
  IF b = "root"
  THEN (IF err THEN "fatal" ELSE "serve")
  ELSE IF err /\ ~done THEN "fatal"
       ELSE IF done THEN "break"
       ELSE "serve"

\* l.Accept() returns the oldest connection of the backlog
Accept ==
  /\ Running /\ pc = "accept" /\ l = "open"
  /\ \E c \in Conns :
       /\ sock[c] = "backlog"
       /\ \A d \in Conns : sock[d] = "backlog" => c <= d
       /\ sock' = [sock EXCEPT ![c] = "open"]
       /\ IF AcceptOutcome(build, FALSE, ctx) = "serve"
          THEN pc' = "header" /\ conn' = c
          ELSE pc' = "kill" /\ conn' = 0
  /\ UNCHANGED <<build, exit, procVars, handle, sigVars, l, closer, pipeVars,
                 closes, wlog, bytes, connMap, regAt, distVars>>

\* l.Accept() returns an error: the listener was closed, or (spurious = TRUE)
\* the system call failed on an open listener
AcceptFails(spurious) ==
  /\ Running /\ pc = "accept"
  /\ IF spurious THEN l = "open" ELSE l = "closed"
  /\ LET o == AcceptOutcome(build, TRUE, ctx) IN
       IF o = "fatal"
       THEN Fatal /\ pc' = pc
       ELSE pc' = "kill" /\ exit' = exit
  /\ UNCHANGED <<build, procVars, handle, sigVars, l, closer, pipeVars, conn,
                 connVars, distVars>>

AcceptClosed == AcceptFails(FALSE)
AcceptError == AcceptFails(TRUE)

\* whether the accept loop goes on to register after WriteFileHeader returned
\* ok: build "cmd" tests the error, build "root" drops it
HeaderChecked(b, ok) == b = "root" \/ ok

\* writer.WriteFileHeader(65535, handle.LinkType()), then the error branch
WriteFileHeader ==
  /\ Running /\ pc = "header"
  /\ \E ok \in BOOLEAN :
       /\ wlog' = [wlog EXCEPT ![conn] =
                     Append(@, [item |-> FileHeader(handle), ok |-> ok])]
       /\ IF HeaderChecked(build, ok)
          THEN /\ pc' = "insert"
               /\ UNCHANGED <<conn, sock, closes>>
          ELSE /\ sock' = [sock EXCEPT ![conn] = "closed"]
               /\ closes' = [closes EXCEPT ![conn] = @ + 1]
               /\ conn' = 0
               /\ pc' = "accept"
  /\ UNCHANGED <<build, exit, procVars, handle, sigVars, l, closer, pipeVars,
                 bytes, connMap, regAt, distVars>>

\* m[k] = v on a Go map
MapAssign(m, k, v) == [x \in DOMAIN m \cup {k} |-> IF x = k THEN v ELSE m[x]]

\* delete(m, k) on a Go map
MapDelete(m, k) == [x \in DOMAIN m \ {k} |-> m[x]]

\* processPackets is inside its range loop over connMap: between two
\* iterations, or in a WritePacket call that does not return
InRange == dist \in {"range", "write"}

\* the range loop is running map operations (next entry, delete) that an
\* assignment by main can meet; in a blocked WritePacket call it runs none
Iterating == dist = "range"

\* connMap[conn] = PcapClient{writer: writer}.  The map is shared with
\* processPackets without synchronisation: when the assignment meets a range
\* loop in progress the new entry may or may not be produced by that loop, or
\* the runtime detects the concurrent access and aborts the process.
Insert ==
  /\ Running /\ pc = "insert"
  /\ \E how \in {"plain", "seen", "abort"} :
       /\ how # "plain" => Iterating
       /\ IF how = "abort"
          THEN /\ exit' = "crash"
               /\ UNCHANGED <<pc, conn, connMap, regAt, todo>>
          ELSE /\ connMap' = MapAssign(connMap, conn, PcapClient)
               /\ regAt' = [regAt EXCEPT ![conn] = passes]
               /\ todo' = IF how = "seen" THEN todo \cup {conn} ELSE todo
               /\ conn' = 0
               /\ pc' = "accept"
               /\ exit' = exit
  /\ UNCHANGED <<build, procVars, handle, sigVars, l, closer, pipeVars, sock,
                 closes, wlog, bytes, dist, packet, passStart,
                 passFailed, passes, consumed, caplen>>

\* cmd.Process.Kill(): the state of the subprocess afterwards.  The call can
\* fail on a running subprocess (one the broker may not signal); a subprocess
\* that has exited stays as it is
Kill(c, ok) == IF c = "running" /\ ok THEN "killed" ELSE c

\* the accept loop was left: cmd.Process.Kill(), whose error is only logged,
\* rStdout.Close(), wStdout.Close(), and main returns, which ends the process
\* with status 0
Shutdown ==
  /\ Running /\ pc = "kill"
  /\ \E ok \in BOOLEAN : cmd' = Kill(cmd, ok)
  /\ rStdout' = "closed"
  /\ wStdout' = "closed"
  /\ pc' = "done"
  /\ exit' = "ok"
  /\ UNCHANGED <<build, capHdr, capLink, written, handle, sigVars, l, closer,
                 conn, connVars, distVars>>

\* ------------------------------------------- goroutine of lines 145-153
\* <-ctx.Done(); cancelFunc() (which also stops the signal notification);
\* l.Close()
CloseListener ==
  /\ Running /\ closer = "wait" /\ ctx
  /\ notify' = FALSE
  /\ l' = "closed"
  /\ closer' = "done"
  /\ UNCHANGED <<build, pc, exit, procVars, handle, ctx, pipeVars,
                 conn, connVars, distVars>>

\* ------------------------------------------- goroutine of lines 345-352
\* cmd.Wait() returns when the subprocess has exited: log.Fatal on an error,
\* os.Exit(0) otherwise
Wait ==
  /\ Running /\ build = "root" /\ pc # "start"
  /\ cmd \in {"exit0", "exit1"}
  /\ exit' = IF cmd = "exit0" THEN "ok" ELSE "fatal"
  /\ UNCHANGED <<build, pc, procVars, handle, sigVars, l, closer, pipeVars,
                 conn, connVars, distVars>>

\* --------------------------------------------------------- processPackets
\* whether processPackets returns on the select at the top of its loop
\* (build "root" has no context)
StopsOnCtx(b, done) == b = "cmd" /\ done

\* a mutated range that also produces the accepted connections that are not
\* registered yet
RangeKeysAccepted(m, s) == DOMAIN m \cup {c \in Conns : s[c] = "open"}

\* a mutated range that walks every open socket, registered or not
RangeKeysOpen(m, s) == {c \in Conns : s[c] = "open"}

\* the entries "for conn, stats := range connMap" sets out to produce
RangeKeys(m, s) == DOMAIN m

\* the next packet arrives from packetSource.Packets(), decoded from the pipe
\* with some captured length; select on ctx.Done(); the range over connMap
\* begins
NextPacket ==
  /\ Running /\ dist = "recv"
  /\ consumed < written
  /\ consumed' = consumed + 1
  /\ \E n \in Lens : caplen' = n
  /\ IF StopsOnCtx(build, ctx)
     THEN /\ dist' = "done"
          /\ UNCHANGED <<packet, todo, passStart, passFailed>>
     ELSE /\ dist' = "range"
          /\ packet' = consumed + 1
          /\ todo' = RangeKeys(connMap, sock)
          /\ passStart' = DOMAIN connMap
          /\ passFailed' = {}
  /\ UNCHANGED <<build, pc, exit, procVars, handle, sigVars, l, closer,
                 pipeVars, conn, connVars, passes>>

\* the map after a successful write to c: stats is the loop's copy of the map
\* value, so the increments made on it never reach the map
Stored(m, c, st) == m

\* stats.totalPackets += 1; stats.totalBytes += uint64(ci.CaptureLength)
Counted(st, n) ==
  [totalPackets |-> st.totalPackets + 1, totalBytes |-> st.totalBytes + n]

\* a mutated failure branch that leaves the loop
RestAfterFailureBreak(t) == {}

\* the entries the range loop still produces after a failed write (continue)
RestAfterFailure(t) == t

\* the registry after the failure branch ran for connection k
Removed(m, k) == MapDelete(m, k)

\* one iteration of the range loop: the loop produces an entry and
\* stats.writer.WritePacket(ci, packet.Data()) succeeds, or fails and the
\* failure branch runs: delete(connMap, conn); conn.Close(); continue
WritePacket ==
  /\ Running /\ dist = "range" /\ todo # {}
  /\ \E c \in todo, ok \in BOOLEAN :
       /\ wlog' = [wlog EXCEPT ![c] =
                     Append(@, [item |-> PacketRecord(packet), ok |-> ok])]
       /\ IF ok
          THEN /\ connMap' = Stored(connMap, c, Counted(connMap[c], caplen))
               /\ bytes' = [bytes EXCEPT ![c] = @ + caplen]
               /\ todo' = todo \ {c}
               /\ UNCHANGED <<sock, closes, passFailed>>
          ELSE /\ connMap' = Removed(connMap, c)
               /\ sock' = [sock EXCEPT ![c] = "closed"]
               /\ closes' = [closes EXCEPT ![c] = @ + 1]
               /\ passFailed' = passFailed \cup {c}
               /\ todo' = RestAfterFailure(todo \ {c})
               /\ UNCHANGED bytes
  /\ UNCHANGED <<build, pc, exit, procVars, handle, sigVars, l, closer,
                 pipeVars, conn, regAt, dist, packet, passStart,
                 passes, consumed, caplen>>

\* one iteration of the range loop in which stats.writer.WritePacket does not
\* return: the client does not read, the socket's send buffer is full, and no
\* write deadline is set on the connection
WriteBlocks ==
  /\ Running /\ dist = "range" /\ todo # {}
  /\ dist' = "write"
  /\ UNCHANGED <<build, pc, exit, procVars, handle, sigVars, l, closer,
                 pipeVars, conn, connVars, packet, todo, passStart,
                 passFailed, passes, consumed, caplen>>

\* the range loop is exhausted: back to waiting for the next packet
PassEnd ==
  /\ Running /\ dist = "range" /\ todo = {}
  /\ passes' = passes + 1
  /\ caplen' = 0
  /\ dist' = "recv"
  /\ UNCHANGED <<build, pc, exit, procVars, handle, sigVars, l, closer,
                 pipeVars, conn, connVars, packet, todo, passStart,
                 passFailed, consumed>>

\* ------------------------------------------------------------ environment
\* the capture subprocess writes its global header to the pipe
ProcWriteHeader ==
  /\ Running /\ cmd = "running" /\ capHdr = "none"
  /\ \E good \in BOOLEAN, lt \in LinkTypes :
       /\ capHdr' = IF good THEN "ok" ELSE "bad"
       /\ capLink' = IF good THEN lt ELSE 0
  /\ UNCHANGED <<build, pc, exit, cmd, written, handle, sigVars, l, closer,
                 pipeVars, conn, connVars, distVars>>

\* the capture subprocess writes one packet record to the pipe
ProcWriteRecord ==
  /\ Running /\ cmd = "running" /\ capHdr = "ok"
  /\ written < MaxRecords
  /\ written' = written + 1
  /\ UNCHANGED <<build, pc, exit, cmd, capHdr, capLink, handle, sigVars, l,
                 closer, pipeVars, conn, connVars, distVars>>

\* the capture subprocess exits by itself, with status 0 or not
ProcExit ==
  /\ Running /\ cmd = "running"
  /\ \E st \in {"exit0", "exit1"} : cmd' = st
  /\ UNCHANGED <<build, pc, exit, capHdr, capLink, written, handle, sigVars, l,
                 closer, pipeVars, conn, connVars, distVars>>

\* the next record on the pipe cannot be decoded.  processPackets only sees
\* the channel of packetSource.Packets(), which carries packets and no error:
\* the packet source keeps reading and the record never reaches the range
\* loop of processPackets.  (The channel is closed only at the end of the
\* file, which the pipe does not reach while the broker holds wStdout.)
DecodeError ==
  /\ Running /\ dist = "recv"
  /\ consumed < written
  /\ consumed' = consumed + 1
  /\ passes' = passes + 1
  /\ UNCHANGED <<build, pc, exit, procVars, handle, sigVars, l, closer,
                 pipeVars, conn, connVars, dist, packet, todo, passStart,
                 passFailed, caplen>>

\* a client connects to the listening socket; connections are numbered in
\* the order in which they arrive
Connect ==
  /\ Running /\ l = "open"
  /\ \E c \in Conns :
       /\ sock[c] = "unused"
       /\ \A d \in Conns : sock[d] = "unused" => c <= d
       /\ sock' = [sock EXCEPT ![c] = "backlog"]
  /\ UNCHANGED <<build, pc, exit, procVars, handle, sigVars, l, closer,
                 pipeVars, conn, closes, wlog, bytes, connMap, regAt, distVars>>

\* os.Interrupt is delivered: it cancels ctx while signal.Notify is in force,
\* and otherwise ends the process (the runtime's default)
Interrupt ==
  /\ Running
  /\ IF notify
     THEN ctx' = TRUE /\ exit' = exit
     ELSE exit' = "signal" /\ ctx' = ctx
  /\ UNCHANGED <<build, pc, procVars, handle, notify, l, closer, pipeVars,
                 conn, connVars, distVars>>

\* --------------------------------------------------------- specification
Main ==
  \/ Start \/ NotifyContext \/ OpenOfflineFile \/ Listen \/ Accept
  \/ AcceptClosed \/ WriteFileHeader \/ Insert \/ Shutdown

Distributor == NextPacket \/ WritePacket \/ WriteBlocks \/ PassEnd

Environment ==
  \/ ProcWriteHeader \/ ProcWriteRecord \/ ProcExit \/ Connect \/ Interrupt
  \/ AcceptError \/ DecodeError

Next == Main \/ Distributor \/ CloseListener \/ Wait \/ Environment

Spec == Init /\ [][Next]_vars

\* the Go scheduler lets every goroutine that can run take its next step;
\* nothing is assumed of the subprocess, the clients or the operator
FairSpec ==
  /\ Spec
  /\ WF_vars(Main)
  /\ WF_vars(Distributor)
  /\ WF_vars(CloseListener)
  /\ WF_vars(Wait)

\* ------------------------------------------------------------ properties
Registered == DOMAIN connMap

IsHeader(e) == e.item.kind = "header"
IsPacket(e) == e.item.kind = "packet"

\* positions of wlog[c] holding a header / a packet record / a failed write
HeaderAt(c) == {i \in 1..Len(wlog[c]) : IsHeader(wlog[c][i])}
PacketAt(c) == {i \in 1..Len(wlog[c]) : IsPacket(wlog[c][i])}
FailedAt(c) == {i \in 1..Len(wlog[c]) : ~wlog[c][i].ok}

\* record r was written to connection c without error
Received(c, r) ==
  \E i \in PacketAt(c) : wlog[c][i].item.id = r /\ wlog[c][i].ok

\* the write of record r to connection c failed
FailedOn(c, r) ==
  \E i \in PacketAt(c) : wlog[c][i].item.id = r /\ ~wlog[c][i].ok

\* the fan-out pass for the record in `packet` has run to its end
PassOver == passes > 0 /\ dist \in {"recv", "done"}

\* C1 (failure isolation): when a fan-out pass is over, every connection that
\* was registered when it began and whose write did not fail has received the
\* record of that pass; a connection whose packet write failed is out of the
\* registry and nothing was written to it after the failed write.
C1_FailureIsolation ==
  /\ PassOver => \A c \in passStart \ passFailed : Received(c, packet)
  /\ \A c \in Conns : \A i \in FailedAt(c) \cap PacketAt(c) :
       c \notin Registered /\ i = Len(wlog[c])

\* a pass for record 1 failed on one connection and reached another one, which
\* went on to receive record 2 while the failed one got nothing more
C1_Witness ==
  \E a, b \in Conns :
    /\ FailedOn(b, 1) /\ Received(a, 1) /\ Received(a, 2)
    /\ PassOver /\ passes = 2

\* C2 (header first): the first write to a connection is the global header
\* with the capture's link type and snapshot length 65535, it is written once,
\* and a packet record is written only after that header write succeeded.
C2_HeaderFirst ==
  \A c \in Conns :
    wlog[c] # << >> =>
      /\ wlog[c][1].item = [kind |-> "header", snaplen |-> 65535, link |-> capLink]
      /\ HeaderAt(c) = {1}
      /\ PacketAt(c) # {} => wlog[c][1].ok

\* C3 (no backfill): every record written to a connection was written after
\* the connection was inserted, and is none of the records whose distribution
\* had finished when it was inserted.
C3_NoBackfill ==
  \A c \in Conns : \A i \in PacketAt(c) :
    regAt[c] >= 0 /\ wlog[c][i].item.id > regAt[c]

\* a connection inserted after record 1 had been distributed received record 2
C3_Witness ==
  \E c \in Conns : regAt[c] >= 1 /\ Received(c, 2) /\ ~Received(c, 1)

\* number of records written to c without error
OkPackets(c) == Cardinality({i \in PacketAt(c) : wlog[c][i].ok})

\* C4 (counter correctness): for a registered connection no write to which
\* has failed, the counters the registry holds are the number of records
\* written to it and the sum of their captured lengths (both 0 at
\* registration).
C4_Counters ==
  \A c \in Registered :
    FailedAt(c) = {} =>
      /\ connMap[c].totalPackets = OkPackets(c)
      /\ connMap[c].totalBytes = bytes[c]

\* C5 (subprocess exit): once the capture subprocess has exited, with status 0
\* or not, the broker eventually terminates without an interrupt or a packet.
C5_ExitShutsDown == (cmd \in {"exit0", "exit1"}) ~> (exit # "running")

\* C6 (header write failure is local): a connection whose header write failed
\* is closed, once, and is never inserted into the registry.
C6_HeaderFailureLocal ==
  \A c \in Conns : \A i \in FailedAt(c) \cap HeaderAt(c) :
    /\ sock[c] = "closed" /\ closes[c] = 1
    /\ c \notin Registered /\ regAt[c] = -1

\* C7 (idempotent removal): after a write to a connection failed, the
\* connection is not in the registry, was closed exactly once, and nothing
\* more was written to it.
C7_IdempotentRemoval ==
  \A c \in Conns : \A i \in FailedAt(c) :
    /\ c \notin Registered
    /\ closes[c] = 1 /\ sock[c] = "closed"
    /\ i = Len(wlog[c])

\* the shutdown sequence of lines 145-161 and 192-208 ran to its end
ShutdownComplete ==
  /\ exit = "ok" /\ pc = "done"
  /\ l = "closed"
  /\ cmd # "running"
  /\ rStdout = "closed" /\ wStdout = "closed"

\* the process was ended by a fatal error, a runtime abort or the default
\* action of a signal
Aborted == exit \in {"fatal", "crash", "signal"}

\* C8 (interrupt): once an interrupt has set the shutdown signal, the shutdown
\* sequence runs to completion (listener closed, accept loop left, subprocess
\* not running any more, both ends of the pipe closed), unless a fatal error
\* or a further signal ends the process first.
C8_InterruptShutsDown == ctx ~> (ShutdownComplete \/ Aborted)

\* C9 (shutdown closes the subscribers): when the shutdown sequence has run,
\* no connection is left in the registry and every connection that was
\* registered has been closed.
C9_ShutdownClosesAll ==
  ShutdownComplete =>
    /\ Registered = {}
    /\ \A c \in Conns : regAt[c] >= 0 => sock[c] = "closed"

\* C10 (malformed header): with an unparsable global header on the pipe the
\* main goroutine never gets past pcap.OpenOfflineFile: the listener is never
\* bound, no connection is accepted or written to, processPackets is never
\* started, and the broker's own end is the fatal one of the failed open,
\* never an exit with status 0 (a signal from outside may end it before).
C10_MalformedHeader ==
  capHdr = "bad" =>
    /\ pc \in {"notify", "open"}
    /\ exit \in {"running", "fatal", "signal"}
    /\ l = "unbound" /\ dist = "off" /\ handle = 0
    /\ \A c \in Conns : sock[c] = "unused" /\ wlog[c] = << >>
    /\ Registered = {}

\* C11 (no concurrent access to the registry): the accept loop's assignment
\* connMap[conn] = ... is never executed while processPackets is inside its
\* range loop over connMap (iterating over it, or deleting from it) for a
\* record.
C11_NoConcurrentAccess == [][Insert => ~InRange]_vars

\* the record ids of the packet writes made to c, in the order of the writes
PacketIds(c) == [i \in 1..Len(wlog[c]) |->
                   IF IsPacket(wlog[c][i]) THEN wlog[c][i].item.id ELSE 0]

\* number of writes of record r made to c
WritesOf(c, r) == Cardinality({i \in PacketAt(c) : wlog[c][i].item.id = r})

\* C12 (exactly-once, in-order fan-out): when the pass for a record is over,
\* every connection registered when it began and whose write did not fail was
\* written that record exactly once; a connection that was not registered when
\* the pass began is not written the record of that pass; the records written
\* to a connection are in capture order without repetition.
C12_ExactlyOnceInOrder ==
  /\ PassOver => \A c \in passStart \ passFailed :
                   Received(c, packet) /\ WritesOf(c, packet) = 1
  /\ packet > 0 => \A c \in Conns \ passStart : WritesOf(c, packet) = 0
  /\ \A c \in Conns : \A i, j \in PacketAt(c) :
       i < j => PacketIds(c)[i] < PacketIds(c)[j]

\* the header write to c was made and succeeded
HeaderOk(c) == \E i \in HeaderAt(c) : wlog[c][i].ok

\* c is past the accept loop's hands with its header written, no write to it
\* has failed and the shutdown sequence has not run
Active(c) ==
  /\ HeaderOk(c) /\ FailedAt(c) = {}
  /\ c # conn
  /\ ~ShutdownComplete

\* C13 (registry invariant): a connection is in the registry if and only if
\* its header write succeeded, no write to it has failed and shutdown has not
\* taken place; a connection whose header is not yet written, or one that was
\* removed, is not in the registry.
C13_RegistryInvariant == \A c \in Conns : c \in Registered <=> Active(c)

\* processPackets is not running: not started yet, or returned
DistStopped == dist \in {"off", "done"}

\* C14 (the distributor stops on shutdown): once the shutdown signal is set
\* processPackets makes no further write to any connection, neither for a new
\* record nor for the rest of a pass in progress, and it terminates, whether
\* or not another record arrives from the pipe.
C14_DistributorStops ==
  /\ [][ctx => ~WritePacket]_vars
  /\ ctx ~> (DistStopped \/ exit # "running")

\* the packet sequence has ended while the shutdown signal was not set: the
\* capture subprocess, the writer of the stream, has exited and
\* processPackets has taken every record it wrote
SequenceEnded ==
  /\ cmd \in {"exit0", "exit1"}
  /\ dist = "recv" /\ consumed = written
  /\ ~ctx

\* C15 (end of the packet sequence): when the packet sequence ends and
\* shutdown has not been signalled, the broker shuts down as it does when the
\* capture subprocess exits: the signal is set, the listener is closed and the
\* accept loop is left (or the process ends), so the broker does not go on
\* accepting clients for ever.
C15_EndOfStreamShutsDown ==
  SequenceEnded ~>
    (exit # "running" \/ (ctx /\ l = "closed" /\ pc \in {"kill", "done"}))

\* C16 (a blocked subscriber does not stall the others): when the write of a
\* record to a connection does not complete on its own, processPackets still
\* gets past it: every connection the pass has yet to serve, the blocked one
\* included, is eventually written to or removed (or the process ends).
C16_BlockedWriteIsBounded ==
  \A c \in Conns :
    (dist = "write" /\ c \in todo) ~> (c \notin todo \/ exit # "running")

\* C17 (accept errors): an error returned by l.Accept() once the shutdown
\* signal is set leaves the accept loop for the shutdown sequence and is not
\* fatal; an error while the signal is not set ends the broker fatally; either
\* way nothing is registered for that call.
C17_AcceptErrorClassified ==
  [][(AcceptClosed \/ AcceptError) =>
       /\ connMap' = connMap /\ regAt' = regAt /\ sock' = sock
       /\ ctx => (exit' = "running" /\ pc' = "kill")
       /\ ~ctx => exit' = "fatal"]_vars

\* the accept loop was left through an accept error after an interrupt, with
\* a client registered and every accepted connection served
C17_Witness ==
  /\ pc = "kill" /\ exit = "running" /\ ctx /\ l = "closed"
  /\ Registered # {}
  /\ \A c \in Conns : sock[c] = "open" => wlog[c] # << >>

\* C18 (decoding error mid-stream): when a record of the stream cannot be
\* decoded, after the global header was accepted, the broker ends fatally; it
\* does not drop the record or stop distributing while it goes on running.
C18_DecodeErrorIsFatal == [][DecodeError => exit' = "fatal"]_vars

\* C19 (exit status): the broker ends with status 0 only if the capture
\* subprocess exited with status 0 or had not exited by itself when the
\* shutdown sequence ran; when the subprocess exited with an error the
\* broker's own end is a fatal one, and when it exited cleanly a broker that
\* ran its shutdown to the end did so with status 0.
C19_ExitStatusReflects ==
  /\ exit = "ok" => cmd \in {"exit0", "killed", "running"}
  /\ (cmd = "exit1" /\ exit # "running") => Aborted
  /\ (cmd = "exit0" /\ pc = "done") => exit = "ok"

\* C20 (single writer per connection): the connection the accept loop is
\* writing the header to is not in the registry, is not one processPackets is
\* about to write to and has received no record; processPackets writes only
\* to connections of the registry; every connection that was written a record
\* had been registered and its header is the one first write.  So the header
\* write of main and the record writes of processPackets never meet on a
\* connection.
C20_SingleWriter ==
  /\ todo \subseteq Registered
  /\ pc \in {"header", "insert"} =>
       /\ conn \notin Registered /\ conn \notin todo
       /\ PacketAt(conn) = {}
  /\ \A c \in Conns :
       PacketAt(c) # {} => regAt[c] >= 0 /\ HeaderAt(c) = {1}

\* main is about to write the header to one connection while processPackets
\* is in the middle of a pass with a write to another connection to do
C20_Witness ==
  /\ pc = "header" /\ dist = "range"
  /\ \E c \in todo : c # conn /\ Received(c, 1) /\ packet = 2

\* C21 (no leaked connection): a connection that l.Accept() returned and
\* that the broker has not closed is in the registry, or is the one the
\* accept loop is working on; once the accept loop was left no accepted
\* connection is open and unregistered.
C21_NoLeakedConnection ==
  /\ \A c \in Conns : sock[c] = "open" => (c \in Registered \/ c = conn)
  /\ pc \in {"kill", "done"} =>
       \A c \in Conns : sock[c] = "open" => c \in Registered

\* C22 (no orphaned capture process): whenever the broker has terminated by
\* its own doing after cmd.Start() succeeded, by returning from main or by a
\* fatal error (unparsable capture header, failure to listen, accept error
\* outside shutdown), the capture subprocess is not running any more: it was
\* killed or had exited.
C22_NoOrphanedProcess ==
  (exit \in {"ok", "fatal"} /\ cmd # "none") =>
    cmd \in {"killed", "exit0", "exit1"}

=============================================================================
